---- MODULE Spec2Model ----
(***************************************************************************)
(* State-machine model of the chain-extension Environment of               *)
(* frame/contracts/src/chain_extension.rs: the typestate of an             *)
(* Environment, its capability-gated accessors, the weight budget and the  *)
(* guest (sandbox) memory it reaches through the wasm Runtime.             *)
(*                                                                         *)
(* Widths are scaled down so that overflow and the u32::MAX guard value    *)
(* stay inside the integers TLC can represent: a byte has Base values, a   *)
(* u32 is 4 bytes wide and a Weight (u64) is 8 bytes wide.                 *)
(***************************************************************************)
EXTENDS Integers, Sequences, FiniteSets, TLC

\* ------------------------------------------------------------------ bounds

\* Number of values of one byte of guest memory (256 in the program).
Base == 2
\* Number of bytes of guest memory.
MemSize == 8
\* Longest buffer a chain extension hands to write / read_into.
MaxBufLen == 3
\* Number of Environment operations modelled per Environment.
MaxOps == 2
MaxDataLen == 2

\* ------------------------------------------------------------------ widths

Byte == 0 .. (Base - 1)

\* u32::max_value(): the largest value of 4 bytes.
U32_MAX == Base * Base * Base * Base - 1

\* Weight::max_value() (Weight = u64): the largest value of 8 bytes.
U64_MAX == (U32_MAX + 1) * (U32_MAX + 1) - 1

Min(a, b) == IF a <= b THEN a ELSE b

\* Option<Weight>::None
None == -1

\* ------------------------------------------------------------------ state

VARIABLES
    mode,            \* the typestate S of Environment<E, S>
    input_ptr,       \* Inner::input_ptr
    input_len,       \* Inner::input_len
    output_ptr,      \* Inner::output_ptr
    output_len_ptr,  \* Inner::output_len_ptr
    memory,          \* the sandbox memory of the running contract
    gas_left,        \* the remaining weight budget of the Runtime's gas meter
    last,            \* the most recent Environment call and its outcome
    uses,            \* how each raw argument has been used so far
    ops,             \* number of Environment operations performed
    pc,              \* where the guest call stands
    ext,             \* the ChainExtension the runtime is configured with
    trap,            \* func_id and arguments of the current trap
    invoked,         \* invocations of ChainExtension::call for that trap
    result,          \* what ChainExtension::call returned for that trap
    call_or_hash,    \* a CallOrHash value held by a caller of schedule.rs
    preimages,       \* what the PreimageProvider holds for each hash
    lookup           \* the most recent resolved / try_resolve and its outcome

vars == << mode, input_ptr, input_len, output_ptr, output_len_ptr,
           memory, gas_left, last, uses, ops, pc, ext, trap, invoked, result,
           call_or_hash, preimages, lookup >>

\* The state of the dispatch of one guest call.
dispatch == << pc, ext, trap, invoked, result >>

\* The state of a caller of CallOrHash::resolved / try_resolve.
schedule == << call_or_hash, preimages, lookup >>

args == << input_ptr, input_len, output_ptr, output_len_ptr >>

\* ------------------------------------------------------------------ mod state

States == { "Init", "OnlyIn", "PrimInBufOut", "BufInBufOut" }

\* impl PrimIn for OnlyIn / PrimInBufOut
PrimIn == { "OnlyIn", "PrimInBufOut" }
\* A slip that also declares impl PrimOut for PrimInBufOut.
PrimOut_wide == { "OnlyIn", "PrimInBufOut" }

\* impl PrimOut for OnlyIn
PrimOut == { "OnlyIn" }
\* impl BufIn for BufInBufOut
BufIn == { "BufInBufOut" }
\* impl BufOut for PrimInBufOut / BufInBufOut
BufOut == { "PrimInBufOut", "BufInBufOut" }

\* --------------------------------------------------- Runtime (wasm/runtime.rs)

\* A range of guest memory lies inside the sandbox memory.
InBounds(ptr, len) == ptr + len <= MemSize

\* Runtime::read_sandbox_memory: bounds-checked copy out of guest memory.
read_sandbox_memory(ptr, len) ==
    IF InBounds(ptr, len)
    THEN [ok |-> TRUE, err |-> "", bytes |-> [i \in 1 .. len |-> memory[ptr + i - 1]]]
    ELSE [ok |-> FALSE, err |-> "MemoryAccessFault", bytes |-> << >>]

\* Runtime::read_sandbox_memory_into_buf: bounds-checked copy that fills the
\* whole of the buffer it is given.
read_sandbox_memory_into_buf(ptr, buf) ==
    read_sandbox_memory(ptr, Len(buf))

\* Little-endian value of a byte string.
RECURSIVE LeValue(_)
LeValue(bytes) ==
    IF bytes = << >> THEN 0 ELSE Head(bytes) + Base * LeValue(Tail(bytes))

\* Decoding of a fixed-size value (a u32): the bytes must be exactly the
\* 4 bytes of its encoding.
DecodeU32(bytes) ==
    IF Len(bytes) = 4
    THEN [ok |-> TRUE, err |-> "", num |-> LeValue(bytes)]
    ELSE [ok |-> FALSE, err |-> "DecodeFailure", num |-> 0]

\* Runtime::read_sandbox_memory_as: bounds-checked copy, then decode.
read_sandbox_memory_as(ptr, len) ==
    LET r == read_sandbox_memory(ptr, len) IN
    IF r.ok THEN DecodeU32(r.bytes)
    ELSE [ok |-> FALSE, err |-> r.err, num |-> 0]

\* Runtime::charge_gas: debit the running budget, or fail leaving it as it was.
charge_gas(amount) ==
    IF amount <= gas_left
    THEN [ok |-> TRUE, err |-> "", gas |-> gas_left - amount]
    ELSE [ok |-> FALSE, err |-> "InsufficientWeight", gas |-> gas_left]

\* The guest memory after copying buf to ptr.
MemSet(ptr, buf) ==
    [i \in DOMAIN memory |->
        IF ptr <= i /\ i < ptr + Len(buf) THEN buf[i - ptr + 1] ELSE memory[i]]

WriteResult(ok, err, mem, gas, copied) ==
    [ok |-> ok, err |-> err, mem |-> mem, gas |-> gas, copied |-> copied]

\* A slip that copies before it charges: a failed charge leaves the copy done.
write_sandbox_output_charge_late(out_ptr, out_len_ptr, buf, allow_skip, token) ==
    IF allow_skip /\ out_ptr = U32_MAX
    THEN WriteResult(TRUE, "", memory, gas_left, FALSE)
    ELSE LET cap == read_sandbox_memory_as(out_len_ptr, 4) IN
         IF ~cap.ok
         THEN WriteResult(FALSE, cap.err, memory, gas_left, FALSE)
         ELSE IF cap.num < Len(buf)
         THEN WriteResult(FALSE, "OutputBufferTooSmall", memory, gas_left, FALSE)
         ELSE IF ~InBounds(out_ptr, Len(buf))
         THEN WriteResult(FALSE, "MemoryAccessFault", memory, gas_left, FALSE)
         ELSE LET c == IF token = None
                       THEN [ok |-> TRUE, err |-> "", gas |-> gas_left]
                       ELSE charge_gas(token) IN
              IF ~c.ok
              THEN WriteResult(FALSE, c.err, MemSet(out_ptr, buf), gas_left, FALSE)
              ELSE WriteResult(TRUE, "", MemSet(out_ptr, buf), c.gas, TRUE)

\* Runtime::write_sandbox_output: bounds-checked copy into guest memory that
\* honours the skip guard value; token is what the charge closure yields for
\* the length of buf, charged only on an actual copy.
write_sandbox_output(out_ptr, out_len_ptr, buf, allow_skip, token) ==
    IF allow_skip /\ out_ptr = U32_MAX
    THEN WriteResult(TRUE, "", memory, gas_left, FALSE)
    ELSE LET cap == read_sandbox_memory_as(out_len_ptr, 4) IN
         IF ~cap.ok
         THEN WriteResult(FALSE, cap.err, memory, gas_left, FALSE)
         ELSE IF cap.num < Len(buf)
         THEN WriteResult(FALSE, "OutputBufferTooSmall", memory, gas_left, FALSE)
         ELSE IF ~InBounds(out_ptr, Len(buf))
         THEN WriteResult(FALSE, "MemoryAccessFault", memory, gas_left, FALSE)
         ELSE LET c == IF token = None
                       THEN [ok |-> TRUE, err |-> "", gas |-> gas_left]
                       ELSE charge_gas(token) IN
              IF ~c.ok
              THEN WriteResult(FALSE, c.err, memory, gas_left, FALSE)
              ELSE WriteResult(TRUE, "", MemSet(out_ptr, buf), c.gas, TRUE)

\* ------------------------------------------------ Environment (pure results)

\* Weight::saturating_mul
saturating_mul(a, b) == Min(a * b, U64_MAX)

\* A slip that multiplies with wrap-around instead of saturation.
ChargeToken_wrapping(weight_per_byte, len) ==
    IF weight_per_byte = None THEN None
    ELSE (weight_per_byte * len) % (U64_MAX + 1)

\* A slip that drops the per-byte weight: the closure yields no token.
ChargeToken_none(weight_per_byte, len) == None

\* The charge closure of write: |len| weight_per_byte.map(|w| w * len).
ChargeToken(weight_per_byte, len) ==
    IF weight_per_byte = None THEN None
    ELSE saturating_mul(weight_per_byte, len)

\* A slip that discards the error of charge_gas and reports success.
charge_weight_swallow(amount) ==
    [charge_gas(amount) EXCEPT !.ok = TRUE, !.err = ""]

\* A slip that charges a token of no weight instead of amount.
charge_weight_free(amount) == charge_gas(0)

\* Environment::charge_weight
charge_weight(amount) == charge_gas(amount)

\* A slip that returns the wrong field of Inner.
val1_wrong == input_ptr

\* Environment::val0 .. val3, Environment::in_len
val0 == input_ptr
val1 == input_len
val2 == output_ptr
val3 == output_len_ptr
in_len == input_len

\* A slip that reads max_len bytes without clamping to input_len.
read_unclamped(max_len) == read_sandbox_memory(input_ptr, max_len)

\* A slip that passes the length where the pointer belongs.
read_swapped(max_len) == read_sandbox_memory(input_len, Min(input_len, max_len))

\* Environment::read
read(max_len) == read_sandbox_memory(input_ptr, Min(input_len, max_len))

\* A slip that fills the whole caller buffer instead of the clamped slice.
read_into_unsliced(buffer) ==
    LET r == read_sandbox_memory_into_buf(input_ptr, buffer)
    IN  IF r.ok THEN [ok |-> TRUE, err |-> "", bytes |-> r.bytes]
        ELSE [ok |-> FALSE, err |-> r.err, bytes |-> << >>]

\* A slip that puts the caller's buffer back when the copy fails.
read_into_restoring(buffer) ==
    LET len == Len(buffer)
        sliced == SubSeq(buffer, 1, Min(len, input_len))
        r == read_sandbox_memory_into_buf(input_ptr, sliced)
    IN  IF r.ok THEN [ok |-> TRUE, err |-> "", bytes |-> r.bytes]
        ELSE [ok |-> FALSE, err |-> r.err, bytes |-> buffer]

\* Environment::read_into: the caller's buffer is taken (left empty), sliced
\* to min(len, input_len), filled, and put back only on success.
read_into(buffer) ==
    LET len == Len(buffer)
        sliced == SubSeq(buffer, 1, Min(len, input_len))
        r == read_sandbox_memory_into_buf(input_ptr, sliced)
    IN  IF r.ok THEN [ok |-> TRUE, err |-> "", bytes |-> r.bytes]
        ELSE [ok |-> FALSE, err |-> r.err, bytes |-> << >>]

\* A slip that clamps the length read to the size of the decoded type.
read_as_clamped == read_sandbox_memory_as(input_ptr, Min(input_len, 4))

\* Environment::read_as
read_as == read_sandbox_memory_as(input_ptr, input_len)

\* A slip that never lets the contract skip the copy.
write_no_skip(buffer, allow_skip, weight_per_byte) ==
    write_sandbox_output(output_ptr, output_len_ptr, buffer, FALSE,
                         ChargeToken(weight_per_byte, Len(buffer)))

\* A slip that passes the two output arguments in the wrong order.
write_swapped(buffer, allow_skip, weight_per_byte) ==
    write_sandbox_output(output_len_ptr, output_ptr, buffer, allow_skip,
                         ChargeToken(weight_per_byte, Len(buffer)))

\* A slip that lets the guard value skip the copy whatever allow_skip says.
write_skip_any(buffer, allow_skip, weight_per_byte) ==
    write_sandbox_output(output_ptr, output_len_ptr, buffer, TRUE,
                         ChargeToken(weight_per_byte, Len(buffer)))

\* Environment::write
write(buffer, allow_skip, weight_per_byte) ==
    write_sandbox_output(output_ptr, output_len_ptr, buffer, allow_skip,
                         ChargeToken(weight_per_byte, Len(buffer)))

\* A slip that offers the transitions in every state, not only in Init.
Transitioning_any == States

\* States whose impl block offers only_in / prim_in_buf_out / buf_in_buf_out.
Transitioning == { "Init" }

\* ------------------------------------------------------------------ inputs

\* Arguments a contract passes to seal_call_chain_extension, as
\* << input_ptr, input_len, output_ptr, output_len_ptr >>: every input pair
\* with one output pair, every output pair with one input pair, and the two
\* extreme calls whose four arguments are all 0 or all u32::MAX.
InputPtrs == { 4, U32_MAX }
InputLens == { 0, 2, 4, U32_MAX }
OutputPtrs == { 0, 7, U32_MAX }
OutputLenPtrs == { 4, 6 }
Traps ==
    { << ip, il, 0, 4 >> : ip \in InputPtrs, il \in InputLens }
    \cup { << 4, 2, op, olp >> : op \in OutputPtrs, olp \in OutputLenPtrs }
    \cup { << v, v, v, v >> : v \in { 0, U32_MAX } }

\* Contents of the sandbox memory when the contract traps: the bytes
\* << 0, 1, 0, 0 >> at address 4 are the output capacity the contract
\* declares when it passes 4 as output_len_ptr (and its input when it
\* passes 4 as input_ptr); the bytes at address 0 are << 1, 1, 0, 0 >>.
Memories ==
    { [i \in 0 .. (MemSize - 1) |-> IF i \in { 0, 1, 5 } THEN 1 ELSE 0] }

\* Weight budgets left when the contract traps.
Budgets == { 2, U64_MAX }

\* Amounts a chain extension charges, and per-byte weights it passes to write.
Amounts == { 0, 2, U64_MAX }
WeightsPerByte == { None, 1, U64_MAX }

\* Buffers a chain extension writes, or passes to read_into.
Buffers == { [i \in 1 .. k |-> i % Base] : k \in 0 .. MaxBufLen }

\* max_len values passed to read.
MaxLens == { 0, 1, 3, U32_MAX }

\* ------------------------------------------------ ChainExtension and RetVal

\* The implementations of ChainExtension: the one on (), and a custom one
\* that implements call and keeps the default enabled.
Extensions == { "unit", "custom" }

\* A slip that reports every extension, the one on () too, as enabled.
enabled_always(e) == TRUE

\* ChainExtension::enabled: true by default, false in the impl on ().
enabled(e) == IF e = "unit" THEN FALSE ELSE TRUE

\* No value returned (yet) by ChainExtension::call.
NoResult ==
    [kind |-> "none", val |-> 0, flags |-> 0, data |-> << >>, err |-> ""]

\* RetVal::Converging(val)
Converging(val) ==
    [kind |-> "Converging", val |-> val, flags |-> 0, data |-> << >>, err |-> ""]

\* RetVal::Diverging{flags, data}
Diverging(flags, data) ==
    [kind |-> "Diverging", val |-> 0, flags |-> flags, data |-> data, err |-> ""]

\* Err(e) of Result<RetVal>
Err(e) ==
    [kind |-> "Err", val |-> 0, flags |-> 0, data |-> << >>, err |-> e]

\* A slip that makes the call of the impl on () succeed.
unit_call_ok(func_id) == Converging(0)

\* <() as ChainExtension>::call
unit_call(func_id) == Err("NoChainExtension")

\* ------------------------------------------- CallOrHash (traits/schedule.rs)

\* The hashes H a CallOrHash can hold.
Hashes == { 1, 2 }

\* The calls C: a variant without arguments, and a variant with one byte.
Calls ==
    { [variant |-> 0, arg |-> 0] } \cup { [variant |-> 1, arg |-> a] : a \in Byte }
NoCallValue == [variant |-> None, arg |-> 0]

\* CallOrHash::Call(c) and CallOrHash::Hash(h)
CallOrHash_Call(c) == [tag |-> "Call", call |-> c, hash |-> None]
CallOrHash_Hash(h) == [tag |-> "Hash", call |-> NoCallValue, hash |-> h]
Values ==
    { CallOrHash_Call(c) : c \in Calls } \cup { CallOrHash_Hash(h) : h \in Hashes }

\* Byte strings a PreimageProvider may hold, and its answers Option<Vec<u8>>.
Datas == UNION { [1 .. k -> Byte] : k \in 0 .. MaxDataLen }
Some(data) == [some |-> TRUE, data |-> data]
NoPreimage == [some |-> FALSE, data |-> << >>]
Providers == [Hashes -> { Some(d) : d \in Datas } \cup { NoPreimage }]

\* P::get_preimage(&h)
get_preimage(h) == preimages[h]

\* C::decode(&mut &data[..]): the first byte selects the variant, the
\* variant with an argument takes the next byte; bytes left over are not
\* looked at.
decode(data) ==
    IF data = << >> THEN [ok |-> FALSE, call |-> NoCallValue]
    ELSE IF data[1] = 0 THEN [ok |-> TRUE, call |-> [variant |-> 0, arg |-> 0]]
    ELSE IF data[1] = 1 /\ Len(data) >= 2
    THEN [ok |-> TRUE, call |-> [variant |-> 1, arg |-> data[2]]]
    ELSE [ok |-> FALSE, call |-> NoCallValue]

\* Result<C, LookupError>
LookupOk(c) == [ok |-> TRUE, call |-> c, err |-> ""]
LookupErr(e) == [ok |-> FALSE, call |-> NoCallValue, err |-> e]
NoLookupResult == [ok |-> FALSE, call |-> NoCallValue, err |-> "none"]

\* A slip that never replaces a hash by its call.
resolved_never(x) == [out |-> x, gets |-> << >>]

\* CallOrHash::resolved: out is the value returned, gets the hashes the
\* provider was asked for.
resolved(x) ==
    IF x.tag = "Call"
    THEN [out |-> CallOrHash_Call(x.call), gets |-> << >>]
    ELSE LET p == get_preimage(x.hash) IN
         IF ~p.some
         THEN [out |-> CallOrHash_Hash(x.hash), gets |-> << x.hash >>]
         ELSE LET d == decode(p.data) IN
              [out |-> IF d.ok THEN CallOrHash_Call(d.call)
                       ELSE CallOrHash_Hash(x.hash),
               gets |-> << x.hash >>]

\* A slip that reports the two lookup errors the wrong way round.
try_resolve_confused(x) ==
    IF x.tag = "Call"
    THEN [out |-> LookupOk(x.call), gets |-> << >>]
    ELSE LET p == get_preimage(x.hash) IN
         IF ~p.some
         THEN [out |-> LookupErr("BadFormat"), gets |-> << x.hash >>]
         ELSE LET d == decode(p.data) IN
              [out |-> IF d.ok THEN LookupOk(d.call) ELSE LookupErr("Unknown"),
               gets |-> << x.hash >>]

\* CallOrHash::try_resolve
try_resolve(x) ==
    IF x.tag = "Call"
    THEN [out |-> LookupOk(x.call), gets |-> << >>]
    ELSE LET p == get_preimage(x.hash) IN
         IF ~p.some
         THEN [out |-> LookupErr("Unknown"), gets |-> << x.hash >>]
         ELSE LET d == decode(p.data) IN
              [out |-> IF d.ok THEN LookupOk(d.call) ELSE LookupErr("BadFormat"),
               gets |-> << x.hash >>]

\* The record of one resolved / try_resolve: its argument, what it returned
\* and what it asked the provider for.
Lookup(op, arg, out, res, gets) ==
    [op |-> op, arg |-> arg, out |-> out, res |-> res, gets |-> gets]
NoLookup ==
    Lookup("none", CallOrHash_Hash(1), CallOrHash_Hash(1), NoLookupResult, << >>)

\* No CallOrHash is being resolved.
NoSchedule ==
    /\ call_or_hash = CallOrHash_Hash(1)
    /\ preimages = [h \in Hashes |-> NoPreimage]
    /\ lookup = NoLookup

\* ------------------------------------------------------------------ actions

NoCall ==
    [op |-> "none", ok |-> TRUE, err |-> "", num |-> 0, bytes |-> << >>,
     buf |-> << >>, skip |-> FALSE, w |-> None, n |-> 0, copied |-> FALSE,
     gas0 |-> 0, mem0 |-> << >>, mode0 |-> "Init"]

\* The record of one Environment call: its name, outcome and inputs, and the
\* budget, memory and mode it started from.
Call(op, ok, err, num, bytes, buf, skip, w, n, copied) ==
    [op |-> op, ok |-> ok, err |-> err, num |-> num, bytes |-> bytes,
     buf |-> buf, skip |-> skip, w |-> w, n |-> n, copied |-> copied,
     gas0 |-> gas_left, mem0 |-> memory, mode0 |-> mode]

Init ==
    /\ mode = "Init"
    /\ \E t \in Traps :
        /\ input_ptr = t[1]
        /\ input_len = t[2]
        /\ output_ptr = t[3]
        /\ output_len_ptr = t[4]
    /\ memory \in Memories
    /\ gas_left \in Budgets
    /\ last = NoCall
    /\ uses = { }
    /\ ops = 0
    /\ pc = "handler"
    /\ ext = "custom"
    /\ trap = [func_id |-> 0, args |-> args]
    /\ invoked = 1
    /\ result = NoResult
    /\ NoSchedule

\* A slip that rebuilds Inner with input_ptr and output_ptr exchanged.
Transition_swapping(to) ==
    /\ pc = "handler"
    /\ mode \in Transitioning
    /\ mode' = to
    /\ input_ptr' = output_ptr
    /\ output_ptr' = input_ptr
    /\ UNCHANGED << input_len, output_len_ptr, memory, gas_left, last, uses, ops,
                    dispatch, schedule >>

Transition(to) ==
    /\ pc = "handler"
    /\ mode \in Transitioning
    /\ mode' = to
    /\ UNCHANGED << args, memory, gas_left, last, uses, ops, dispatch, schedule >>

CallOnlyIn == Transition("OnlyIn")
CallPrimInBufOut == Transition("PrimInBufOut")
CallBufInBufOut == Transition("BufInBufOut")

\* An accessor that returns a raw argument as an integer.
IntAccessor(op, capability, value, arg) ==
    /\ mode \in capability
    /\ pc = "handler"
    /\ ops < MaxOps
    /\ last' = Call(op, TRUE, "", value, << >>, << >>, FALSE, None, 0, FALSE)
    /\ uses' = uses \cup { << arg, "int" >> }
    /\ ops' = ops + 1
    /\ UNCHANGED << mode, args, memory, gas_left, dispatch, schedule >>

CallVal0 == IntAccessor("val0", PrimIn, val0, 0)
CallVal1 == IntAccessor("val1", PrimIn, val1, 1)
CallVal2 == IntAccessor("val2", PrimOut, val2, 2)
CallVal3 == IntAccessor("val3", PrimOut, val3, 3)

CallInLen ==
    /\ mode \in BufIn
    /\ pc = "handler"
    /\ ops < MaxOps
    /\ last' = Call("in_len", TRUE, "", in_len, << >>, << >>, FALSE, None, 0, FALSE)
    /\ uses' = uses \cup { << 1, "buf" >> }
    /\ ops' = ops + 1
    /\ UNCHANGED << mode, args, memory, gas_left, dispatch, schedule >>

CallChargeWeight ==
    /\ pc = "handler"
    /\ ops < MaxOps
    /\ \E amount \in Amounts :
        LET r == charge_weight(amount) IN
        /\ gas_left' = r.gas
        /\ last' = Call("charge_weight", r.ok, r.err, 0, << >>, << >>, FALSE,
                        amount, 0, FALSE)
    /\ ops' = ops + 1
    /\ UNCHANGED << mode, args, memory, uses, dispatch, schedule >>

\* A slip that makes read charge for the bytes it returns.
CallRead_charging ==
    /\ mode \in BufIn
    /\ pc = "handler"
    /\ ops < MaxOps
    /\ \E max_len \in MaxLens :
        LET r == read(max_len) IN
        /\ last' = Call("read", r.ok, r.err, 0, r.bytes, << >>, FALSE, None,
                        max_len, FALSE)
        /\ gas_left' = charge_gas(Len(r.bytes)).gas
    /\ uses' = uses \cup { << 0, "buf" >>, << 1, "buf" >> }
    /\ ops' = ops + 1
    /\ UNCHANGED << mode, args, memory, dispatch, schedule >>

CallRead ==
    /\ mode \in BufIn
    /\ pc = "handler"
    /\ ops < MaxOps
    /\ \E max_len \in MaxLens :
        LET r == read(max_len) IN
        last' = Call("read", r.ok, r.err, 0, r.bytes, << >>, FALSE, None,
                     max_len, FALSE)
    /\ uses' = uses \cup { << 0, "buf" >>, << 1, "buf" >> }
    /\ ops' = ops + 1
    /\ UNCHANGED << mode, args, memory, gas_left, dispatch, schedule >>

CallReadInto ==
    /\ mode \in BufIn
    /\ pc = "handler"
    /\ ops < MaxOps
    /\ \E buffer \in Buffers :
        LET r == read_into(buffer) IN
        last' = Call("read_into", r.ok, r.err, 0, r.bytes, buffer, FALSE, None,
                     0, FALSE)
    /\ uses' = uses \cup { << 0, "buf" >>, << 1, "buf" >> }
    /\ ops' = ops + 1
    /\ UNCHANGED << mode, args, memory, gas_left, dispatch, schedule >>

CallReadAs ==
    /\ mode \in BufIn
    /\ pc = "handler"
    /\ ops < MaxOps
    /\ LET r == read_as IN
        last' = Call("read_as", r.ok, r.err, r.num, << >>, << >>, FALSE, None,
                     0, FALSE)
    /\ uses' = uses \cup { << 0, "buf" >>, << 1, "buf" >> }
    /\ ops' = ops + 1
    /\ UNCHANGED << mode, args, memory, gas_left, dispatch, schedule >>

CallWrite ==
    /\ mode \in BufOut
    /\ pc = "handler"
    /\ ops < MaxOps
    /\ \E buffer \in Buffers, allow_skip \in BOOLEAN, weight_per_byte \in WeightsPerByte :
        LET r == write(buffer, allow_skip, weight_per_byte) IN
        /\ memory' = r.mem
        /\ gas_left' = r.gas
        /\ last' = Call("write", r.ok, r.err, 0, << >>, buffer, allow_skip,
                        weight_per_byte, 0, r.copied)
    /\ uses' = uses \cup { << 2, "buf" >>, << 3, "buf" >> }
    /\ ops' = ops + 1
    /\ UNCHANGED << mode, args, dispatch, schedule >>

Next ==
    \/ CallOnlyIn
    \/ CallPrimInBufOut
    \/ CallBufInBufOut
    \/ CallChargeWeight
    \/ CallVal0
    \/ CallVal1
    \/ CallVal2
    \/ CallVal3
    \/ CallInLen
    \/ CallRead
    \/ CallReadInto
    \/ CallReadAs
    \/ CallWrite

Spec == Init /\ [][Next]_vars

\* ------------------------------------------- dispatch of a guest call

\* Operation identifiers a contract passes as func_id.
FuncIds == { 0, U32_MAX }

\* Arguments of the traps of a guest call that traps more than once.
DispatchTraps == { << 4, 2, 0, 4 >>, << 4, 4, 7, 4 >> }

\* Values, flags and data a chain extension returns, and an error of its own.
RetVals == { 0, U32_MAX }
ReturnFlags == { 0, 1 }
ReturnData == { b \in Buffers : Len(b) <= 1 }
OwnErrors == { "Other" }

\* A slip that stores input_len and output_ptr in each other's field.
new_swapped(input_ptr_, input_len_, output_ptr_, output_len_ptr_) ==
    [mode |-> "Init", input_ptr |-> input_ptr_, input_len |-> output_ptr_,
     output_ptr |-> input_len_, output_len_ptr |-> output_len_ptr_]

\* Environment::new: an Environment in Init holding the four arguments.
new(input_ptr_, input_len_, output_ptr_, output_len_ptr_) ==
    [mode |-> "Init", input_ptr |-> input_ptr_, input_len |-> input_len_,
     output_ptr |-> output_ptr_, output_len_ptr |-> output_len_ptr_]

\* A slip that lets the contract go on after a Diverging return.
Exit_resuming(r) ==
    IF r.kind = "Err" THEN "aborted" ELSE "guest"

\* A slip that lets the contract go on after an error.
Exit_lenient(r) ==
    IF r.kind = "Diverging" THEN "returned" ELSE "guest"

\* What the return of ChainExtension::call does to the guest call: an Err
\* aborts it, Converging resumes the contract, Diverging ends the call with
\* the data and flags as its result.
Exit(r) ==
    IF r.kind = "Err" THEN "aborted"
    ELSE IF r.kind = "Converging" THEN "guest"
    ELSE "returned"

\* A guest call before its first trap: no Environment exists yet.
DispatchInit ==
    /\ pc = "guest"
    /\ ext \in Extensions
    /\ memory \in Memories
    /\ gas_left \in Budgets
    /\ mode = "Init"
    /\ input_ptr = 0 /\ input_len = 0 /\ output_ptr = 0 /\ output_len_ptr = 0
    /\ last = NoCall
    /\ uses = { }
    /\ ops = 0
    /\ trap = [func_id |-> 0, args |-> << 0, 0, 0, 0 >>]
    /\ invoked = 0
    /\ result = NoResult
    /\ NoSchedule

\* The contract calls seal_call_chain_extension: a disabled extension fails
\* the call without being called; otherwise an Environment is built from
\* the arguments and handed to ChainExtension::call.
Trap ==
    /\ pc = "guest"
    /\ \E id \in FuncIds, t \in DispatchTraps :
        /\ trap' = [func_id |-> id, args |-> t]
        /\ IF ~enabled(ext)
           THEN /\ pc' = "aborted"
                /\ result' = Err("NoChainExtension")
                /\ invoked' = 0
                /\ UNCHANGED << mode, args, last, uses >>
           ELSE LET env == new(t[1], t[2], t[3], t[4]) IN
                /\ mode' = env.mode
                /\ input_ptr' = env.input_ptr
                /\ input_len' = env.input_len
                /\ output_ptr' = env.output_ptr
                /\ output_len_ptr' = env.output_len_ptr
                /\ last' = NoCall
                /\ uses' = { }
                /\ pc' = "handler"
                /\ invoked' = 1
                /\ result' = NoResult
    /\ UNCHANGED << memory, gas_left, ops, ext, schedule >>

\* ChainExtension::call returns r: the Environment is dropped.
Return(r) ==
    /\ pc = "handler"
    /\ result' = r
    /\ pc' = Exit(r)
    /\ UNCHANGED << mode, args, memory, gas_left, last, uses, ops, ext, trap,
                    invoked, schedule >>

\* A custom chain extension returns Ok(RetVal::Converging(val)).
ReturnConverging ==
    /\ ext = "custom"
    /\ \E val \in RetVals : Return(Converging(val))

\* A custom chain extension returns Ok(RetVal::Diverging{flags, data}).
ReturnDiverging ==
    /\ ext = "custom"
    /\ \E flags \in ReturnFlags, data \in ReturnData :
        Return(Diverging(flags, data))

\* A custom chain extension returns Err: the error of its last Environment
\* call, passed through, or an error of its own.
ReturnErr ==
    /\ ext = "custom"
    /\ \E e \in OwnErrors \cup (IF last.ok THEN { } ELSE { last.err }) :
        Return(Err(e))

\* The call of the impl on ().
UnitCall ==
    /\ ext = "unit"
    /\ Return(unit_call(trap.func_id))

DispatchNext ==
    \/ Trap
    \/ CallOnlyIn
    \/ CallPrimInBufOut
    \/ CallBufInBufOut
    \/ CallChargeWeight
    \/ CallVal0
    \/ CallVal1
    \/ CallVal2
    \/ CallVal3
    \/ CallInLen
    \/ CallRead
    \/ CallReadInto
    \/ CallReadAs
    \/ CallWrite
    \/ ReturnConverging
    \/ ReturnDiverging
    \/ ReturnErr

DispatchSpec == DispatchInit /\ [][DispatchNext]_vars

\* ChainExtension::call of the impl on () invoked directly, with any
\* func_id and a fresh Environment.
UnitInit ==
    /\ mode = "Init"
    /\ \E t \in Traps, id \in FuncIds :
        /\ input_ptr = t[1]
        /\ input_len = t[2]
        /\ output_ptr = t[3]
        /\ output_len_ptr = t[4]
        /\ trap = [func_id |-> id, args |-> t]
    /\ memory \in Memories
    /\ gas_left \in Budgets
    /\ last = NoCall
    /\ uses = { }
    /\ ops = 0
    /\ pc = "handler"
    /\ ext = "unit"
    /\ invoked = 1
    /\ result = NoResult
    /\ NoSchedule

UnitNext == UnitCall

UnitSpec == UnitInit /\ [][UnitNext]_vars

\* ------------------------------------- resolving a CallOrHash (schedule.rs)

\* A caller holds any CallOrHash and the provider holds no preimage yet; no
\* contract is running.
ResolveInit ==
    /\ call_or_hash \in Values
    /\ preimages = [h \in Hashes |-> NoPreimage]
    /\ lookup = NoLookup
    /\ pc = "guest"
    /\ ext = "unit"
    /\ memory \in Memories
    /\ gas_left = U64_MAX
    /\ mode = "Init"
    /\ input_ptr = 0 /\ input_len = 0 /\ output_ptr = 0 /\ output_len_ptr = 0
    /\ last = NoCall
    /\ uses = { }
    /\ ops = 0
    /\ trap = [func_id |-> 0, args |-> << 0, 0, 0, 0 >>]
    /\ invoked = 0
    /\ result = NoResult

\* call_or_hash = call_or_hash.resolved::<P>()
CallResolved ==
    /\ LET r == resolved(call_or_hash) IN
        /\ call_or_hash' = r.out
        /\ lookup' = Lookup("resolved", call_or_hash, r.out, NoLookupResult, r.gets)
    /\ UNCHANGED << mode, args, memory, gas_left, last, uses, ops, dispatch,
                    preimages >>

\* call_or_hash.clone().try_resolve::<P>()
CallTryResolve ==
    /\ LET r == try_resolve(call_or_hash) IN
        lookup' = Lookup("try_resolve", call_or_hash, call_or_hash, r.out, r.gets)
    /\ UNCHANGED << mode, args, memory, gas_left, last, uses, ops, dispatch,
                    call_or_hash, preimages >>

\* The provider's contents change: a preimage is noted for a hash that had
\* none, or the preimage of a hash is removed.
NotePreimage ==
    /\ \E h \in Hashes, d \in Datas :
        /\ ~preimages[h].some
        /\ preimages' = [preimages EXCEPT ![h] = Some(d)]
    /\ lookup' = NoLookup
    /\ UNCHANGED << mode, args, memory, gas_left, last, uses, ops, dispatch,
                    call_or_hash >>

UnnotePreimage ==
    /\ \E h \in Hashes :
        /\ preimages[h].some
        /\ preimages' = [preimages EXCEPT ![h] = NoPreimage]
    /\ lookup' = NoLookup
    /\ UNCHANGED << mode, args, memory, gas_left, last, uses, ops, dispatch,
                    call_or_hash >>

ResolveNext ==
    \/ CallResolved
    \/ CallTryResolve
    \/ NotePreimage
    \/ UnnotePreimage

ResolveSpec == ResolveInit /\ [][ResolveNext]_vars

\* ------------------------------------------------------------------ claims

Terminal == { "OnlyIn", "PrimInBufOut", "BufInBufOut" }

\* C1: the mode changes only from Init to one of the three terminal modes;
\* in a terminal mode no transition is enabled, so the mode changes at most
\* once, never returns to Init and never moves between terminal modes.
C1_ModeStateMachine ==
    /\ [][mode' /= mode => (mode = "Init" /\ mode' \in Terminal)]_vars
    /\ [](mode /= "Init" =>
            ~ENABLED (CallOnlyIn \/ CallPrimInBufOut \/ CallBufInBufOut))

\* A terminal mode has been entered and operations were performed in it.
C1_Witness == mode \in Terminal /\ ops = MaxOps /\ last.mode0 = mode

\* C2: an accessor is enabled, and has been called, only in a mode with the
\* matching capability; in Init no accessor has acted; no raw argument has
\* been used both as a plain integer and as part of a buffer.
C2_AccessorsGated ==
    /\ (ENABLED CallVal0 \/ ENABLED CallVal1) => mode \in { "OnlyIn", "PrimInBufOut" }
    /\ (ENABLED CallVal2 \/ ENABLED CallVal3) => mode = "OnlyIn"
    /\ (ENABLED CallRead \/ ENABLED CallReadInto \/ ENABLED CallReadAs
            \/ ENABLED CallInLen) => mode = "BufInBufOut"
    /\ ENABLED CallWrite => mode \in { "PrimInBufOut", "BufInBufOut" }
    /\ last.op \in { "val0", "val1" } => last.mode0 \in { "OnlyIn", "PrimInBufOut" }
    /\ last.op \in { "val2", "val3" } => last.mode0 = "OnlyIn"
    /\ last.op \in { "read", "read_into", "read_as", "in_len" }
            => last.mode0 = "BufInBufOut"
    /\ last.op = "write" => last.mode0 \in { "PrimInBufOut", "BufInBufOut" }
    /\ mode = "Init" => (uses = { } /\ last.op \in { "none", "charge_weight" }
                          /\ memory \in Memories)
    /\ \A i \in 0 .. 3 : ~(<< i, "int" >> \in uses /\ << i, "buf" >> \in uses)

\* In PrimInBufOut an input argument was read as an integer and the output
\* arguments were then used as a buffer.
C2_Witness ==
    /\ mode = "PrimInBufOut"
    /\ last.op = "write"
    /\ << 0, "int" >> \in uses
    /\ << 2, "buf" >> \in uses

\* The output capacity stored in memory mem at the length pointer p.
CapacityAt(mem, p) ==
    mem[p] + Base * mem[p + 1] + Base * Base * mem[p + 2]
        + Base * Base * Base * mem[p + 3]

\* C3: write with allow_skip = true and output_ptr = u32::MAX succeeds,
\* leaves guest memory and the budget as they were and copies nothing, for
\* every buffer and every weight_per_byte.
C3_SkipIsFree ==
    (last.op = "write" /\ last.skip /\ output_ptr = U32_MAX)
        => /\ last.ok
           /\ ~last.copied
           /\ memory = last.mem0
           /\ gas_left = last.gas0

\* A skipped write of a buffer longer than the declared capacity, with a
\* per-byte weight.
C3_Witness ==
    /\ last.op = "write" /\ last.skip /\ output_ptr = U32_MAX
    /\ output_len_ptr = 4
    /\ Len(last.buf) > CapacityAt(last.mem0, 4)
    /\ last.w = U64_MAX
    /\ last.ok

\* C4: a write that is not skipped and whose buffer is longer than the
\* capacity stored at the length pointer fails with OutputBufferTooSmall,
\* leaving guest memory and the budget unchanged; a buffer no longer than
\* the capacity is not rejected for size.
C4_TooSmall ==
    (/\ last.op = "write"
     /\ ~(last.skip /\ output_ptr = U32_MAX)
     /\ output_len_ptr + 4 <= MemSize)
        => LET cap == CapacityAt(last.mem0, output_len_ptr) IN
           /\ Len(last.buf) > cap =>
                /\ ~last.ok
                /\ last.err = "OutputBufferTooSmall"
                /\ memory = last.mem0
                /\ gas_left = last.gas0
           /\ Len(last.buf) <= cap => last.err /= "OutputBufferTooSmall"

\* A write with a per-byte weight was rejected for size.
C4_Witness ==
    /\ last.op = "write"
    /\ last.err = "OutputBufferTooSmall"
    /\ Len(last.buf) = CapacityAt(last.mem0, output_len_ptr) + 1
    /\ last.w /= None

\* C5 as stated: a write that copies with Some(w) debits exactly
\* w * buffer.len(), for every w and every length.
C5_ExactProduct ==
    (last.op = "write" /\ last.copied /\ last.w /= None)
        => last.gas0 - gas_left = last.w * Len(last.buf)

\* C5 amended: a write that copies with Some(w) debits the saturating
\* product min(w * buffer.len(), Weight::MAX); with None it debits nothing.
C5_SaturatingProduct ==
    /\ (last.op = "write" /\ last.copied /\ last.w /= None)
        => last.gas0 - gas_left =
            (IF last.w * Len(last.buf) > U64_MAX THEN U64_MAX
             ELSE last.w * Len(last.buf))
    /\ (last.op = "write" /\ last.ok /\ last.w = None)
        => gas_left = last.gas0

\* A copying write of two or more bytes debited the budget.
C5_Witness ==
    /\ last.op = "write" /\ last.copied
    /\ last.w = 1
    /\ Len(last.buf) >= 2
    /\ gas_left = last.gas0 - Len(last.buf)

\* C6: a write debits the budget only if it copies, a copying write with a
\* non-zero charge does debit it, and a write that does not copy (skipped,
\* rejected for size, failed charge, memory fault) debits nothing; a failed
\* charge means the copy did not happen.
C6_ChargeIffCopy ==
    last.op = "write"
        => /\ gas_left /= last.gas0 => last.copied
           /\ (last.copied /\ last.w /= None /\ last.w * Len(last.buf) > 0)
                => gas_left < last.gas0
           /\ ~last.copied => (gas_left = last.gas0 /\ memory = last.mem0)
           /\ last.copied => last.ok
           /\ last.err = "InsufficientWeight" => ~last.copied

\* A write with a per-byte weight whose output pointer faulted.
C6_Witness ==
    /\ last.op = "write"
    /\ last.err = "MemoryAccessFault"
    /\ output_len_ptr + 4 <= MemSize
    /\ last.w /= None /\ Len(last.buf) > 0
    /\ ~last.copied

\* C7: every failed write leaves guest memory as it was before the call.
C7_FailedWriteNoEffect ==
    (last.op = "write" /\ ~last.ok) => memory = last.mem0

\* A write failed on its own per-byte charge.
C7_Witness ==
    /\ last.op = "write"
    /\ last.err = "InsufficientWeight"
    /\ Len(last.buf) > 0

C9_ChargesAccumulate ==
    /\ [][gas_left' <= gas_left]_vars
    /\ [][(/\ last.op = "charge_weight" /\ last.ok
           /\ ops' = ops + 1 /\ last'.op = "charge_weight"
           /\ last'.w > gas_left)
            => (/\ ~last'.ok
                /\ gas_left = last.gas0 - last.w
                /\ gas_left' = last.gas0 - last.w)]_vars

\* A second charge failed after a first one had debited the budget.
C9_Witness ==
    /\ last.op = "charge_weight"
    /\ ~last.ok
    /\ mode = "Init"
    /\ ops = 2
    /\ last.gas0 \notin Budgets

\* C10: a read whose clamped range lies in guest memory returns exactly
\* min(max_len, in_len) bytes, the bytes of guest memory from input_ptr on.
C10_ReadClamped ==
    last.op = "read"
        => LET n == IF last.n <= input_len THEN last.n ELSE input_len IN
           /\ input_ptr + n <= MemSize => last.ok
           /\ last.ok =>
                /\ Len(last.bytes) = n
                /\ \A i \in 1 .. n : last.bytes[i] = last.mem0[input_ptr + i - 1]

\* read with a max_len larger than in_len returned all in_len bytes.
C10_Witness ==
    /\ last.op = "read" /\ last.ok
    /\ input_len > 0
    /\ last.n > input_len
    /\ Len(last.bytes) = input_len

\* C11: read, read_into, read_as and in_len leave the budget and all guest
\* memory as they were, whether they succeed or fail.
C11_ReadsAreFree ==
    last.op \in { "read", "read_into", "read_as", "in_len" }
        => (gas_left = last.gas0 /\ memory = last.mem0)

\* A read returned bytes of guest memory while a budget was left.
C11_Witness ==
    /\ last.op = "read" /\ last.ok
    /\ Len(last.bytes) = 3
    /\ gas_left > 0

\* C12: a successful read_into leaves in the caller's buffer exactly the
\* n = min(buffer.len(), in_len) bytes of guest memory from input_ptr on,
\* and its outcome is that of read(buffer.len()).
C12_ReadIntoIsRead ==
    last.op = "read_into"
        => LET n == IF Len(last.buf) <= input_len THEN Len(last.buf)
                    ELSE input_len
               r == read(Len(last.buf)) IN
           /\ last.ok = r.ok
           /\ last.ok =>
                /\ Len(last.bytes) = n
                /\ \A i \in 1 .. n : last.bytes[i] = last.mem0[input_ptr + i - 1]
                /\ last.bytes = r.bytes

\* read_into shrank a buffer longer than the input to in_len bytes.
C12_Witness ==
    /\ last.op = "read_into" /\ last.ok
    /\ input_len > 0
    /\ Len(last.buf) > input_len
    /\ Len(last.bytes) = input_len

\* C13: read_as reads exactly in_len bytes from input_ptr, without clamping:
\* it faults when that range leaves guest memory, fails with a decode error
\* when the in_len bytes are not the encoding of the value, and otherwise
\* returns the value decoded from them.
C13_ReadAs ==
    last.op = "read_as"
        => /\ input_ptr + input_len > MemSize
                => (~last.ok /\ last.err = "MemoryAccessFault")
           /\ (input_ptr + input_len <= MemSize /\ input_len /= 4)
                => (~last.ok /\ last.err = "DecodeFailure")
           /\ (input_ptr + input_len <= MemSize /\ input_len = 4)
                => (last.ok /\ last.num = CapacityAt(last.mem0, input_ptr))

\* read_as failed to decode an input that is shorter than the value.
C13_Witness ==
    /\ last.op = "read_as"
    /\ last.err = "DecodeFailure"
    /\ input_len = 2

\* C16: the four raw arguments of an Environment never change, whatever
\* transitions and calls follow its construction, and a mode transition
\* changes the mode alone: budget and guest memory stay as they were.
C16_ArgsFrozen ==
    /\ [][UNCHANGED args]_vars
    /\ [][mode' /= mode => UNCHANGED << args, memory, gas_left >>]_vars

\* After a transition and a failed call the arguments are still held.
C16_Witness ==
    /\ mode \in Terminal
    /\ ops = MaxOps
    /\ ~last.ok
    /\ input_ptr = U32_MAX /\ output_ptr = 0

\* C17: val0, val1, val2, val3 and in_len return input_ptr, input_len,
\* output_ptr, output_len_ptr and input_len verbatim, and leave the budget
\* and guest memory as they were.
C17_IntegersVerbatim ==
    /\ last.op = "val0" => last.num = input_ptr
    /\ last.op = "val1" => last.num = input_len
    /\ last.op = "val2" => last.num = output_ptr
    /\ last.op = "val3" => last.num = output_len_ptr
    /\ last.op = "in_len" => last.num = input_len
    /\ last.op \in { "val0", "val1", "val2", "val3", "in_len" }
        => (last.ok /\ gas_left = last.gas0 /\ memory = last.mem0)

\* val1 returned an input_len of u32::MAX that differs from input_ptr.
C17_Witness ==
    /\ last.op = "val1"
    /\ last.num = U32_MAX
    /\ input_ptr = 4

\* C14: with the extension on (), whose enabled() is false, call is never
\* invoked and every trap fails with NoChainExtension; an extension that
\* does not override enabled() is enabled, and each of its traps invokes call.
C14_DisabledNeverCalled ==
    /\ ext = "unit" =>
        /\ invoked = 0
        /\ pc \in { "guest", "aborted" }
        /\ pc = "aborted" <=> result = Err("NoChainExtension")
        /\ pc = "guest" <=> result = NoResult
        /\ mode = "Init" /\ last = NoCall
    /\ ext = "custom" =>
        /\ (pc = "guest" /\ result = NoResult) => invoked = 0
        /\ (pc /= "guest" \/ result /= NoResult) => invoked = 1

\* A trap of a runtime configured with () has failed.
C14_Witness ==
    /\ ext = "unit"
    /\ pc = "aborted"
    /\ trap.func_id = U32_MAX
    /\ trap.args = << 4, 4, 7, 4 >>

\* C15: the impl on () reports enabled() = false, and its call, with any
\* func_id and any arguments, returns Err(NoChainExtension) leaving the
\* Environment's mode and arguments, the budget and guest memory unchanged.
C15_UnitCall ==
    /\ [](~enabled("unit"))
    /\ [][/\ result' = Err("NoChainExtension")
          /\ UNCHANGED << mode, args, memory, gas_left, last, uses, ops >>]_vars

\* The call of the impl on () has returned for func_id u32::MAX.
C15_Witness ==
    /\ ext = "unit"
    /\ invoked = 1
    /\ result.kind = "Err"
    /\ trap.func_id = U32_MAX
    /\ trap.args = << U32_MAX, U32_MAX, U32_MAX, U32_MAX >>
    /\ gas_left = U64_MAX

\* An error has been returned in the current guest call: by call itself, or
\* by the last Environment operation.
Errored == pc = "aborted" \/ (pc = "handler" /\ ~last.ok)

\* C18 as stated: once the handler or an Environment operation has returned
\* an error, no later step writes guest memory, debits the budget or
\* resumes the contract.
C18_AnyErrorAborts ==
    [][Errored => (memory' = memory /\ gas_left' = gas_left /\ pc' /= "guest")]_vars

\* C18 amended: an Err returned by call aborts the guest call, with no
\* later write, debit, resumption or second invocation; the return of the
\* error itself changes neither memory nor budget.
C18_HandlerErrAborts ==
    /\ [](result.kind = "Err" => pc = "aborted")
    /\ [][pc = "aborted" =>
            (pc' = "aborted" /\ memory' = memory /\ gas_left' = gas_left
                /\ invoked' = invoked /\ result' = result)]_vars
    /\ [][(result'.kind = "Err" /\ result.kind /= "Err")
            => (memory' = memory /\ gas_left' = gas_left)]_vars

\* The handler passed through the error of a failed write.
C18_Witness ==
    /\ pc = "aborted"
    /\ ext = "custom"
    /\ last.op = "write" /\ ~last.ok
    /\ result = Err(last.err)

\* C19: a Converging return hands its value to the contract, which goes on;
\* a Diverging return ends the guest call with its data and flags, and the
\* contract never goes on after it.
C19_RetVal ==
    /\ [](result.kind = "Converging" => (pc = "guest" /\ result.val \in RetVals))
    /\ [](result.kind = "Diverging" <=> pc = "returned")
    /\ [][pc = "returned" => (pc' = "returned" /\ result' = result
                                /\ memory' = memory /\ gas_left' = gas_left)]_vars
    /\ [][(pc = "handler" /\ pc' /= "handler")
            => result'.kind \in { "Converging", "Diverging", "Err" }]_vars

\* The guest call ended on a Diverging return with flags and data.
C19_Witness ==
    /\ pc = "returned"
    /\ result.kind = "Diverging"
    /\ result.flags = 1
    /\ Len(result.data) = 1

\* A step of the chain extension on its Environment.
EnvStep ==
    \/ CallOnlyIn \/ CallPrimInBufOut \/ CallBufInBufOut
    \/ CallChargeWeight
    \/ CallVal0 \/ CallVal1 \/ CallVal2 \/ CallVal3
    \/ CallInLen \/ CallRead \/ CallReadInto \/ CallReadAs
    \/ CallWrite

\* C20: every trap that is dispatched builds one Environment in Init from
\* that trap's arguments, whatever the previous Environment was; it is
\* handed to one invocation of call, changes mode at most once, and is out
\* of reach once call has returned.
C20_OneEnvironmentPerTrap ==
    /\ [][(pc = "guest" /\ pc' = "handler")
            => (/\ mode' = "Init" /\ uses' = { } /\ last' = NoCall
                /\ invoked' = 1
                /\ args' = trap'.args)]_vars
    /\ [](pc = "handler" => (args = trap.args /\ invoked = 1))
    /\ [](invoked <= 1)
    /\ [][mode' /= mode
            => \/ (pc = "handler" /\ mode = "Init" /\ mode' \in Terminal)
               \/ (pc = "guest" /\ pc' = "handler" /\ mode' = "Init")]_vars
    /\ [](pc /= "handler" => ~ENABLED EnvStep)

\* A second trap of the same guest call got a fresh Environment.
C20_Witness ==
    /\ pc = "handler"
    /\ ops = MaxOps
    /\ mode = "Init"
    /\ last = NoCall
    /\ args = << 4, 4, 7, 4 >>

\* C21: a read, read_into or read_as whose range does not lie inside guest
\* memory fails with MemoryAccessFault and hands out no data, the length of
\* the range being min(max_len, in_len) for read, min(buffer.len(), in_len)
\* for read_into and in_len for read_as; a read whose clamped range lies
\* inside succeeds even when in_len itself runs out of bounds, while read_as
\* on the same arguments fails.
C21_ReadFaults ==
    /\ last.op \in { "read", "read_into" } =>
        LET length == Min(IF last.op = "read" THEN last.n ELSE Len(last.buf),
                          input_len) IN
        /\ ~InBounds(input_ptr, length) =>
            (~last.ok /\ last.err = "MemoryAccessFault" /\ last.bytes = << >>)
        /\ InBounds(input_ptr, length) => (last.ok /\ Len(last.bytes) = length)
    /\ (last.op = "read_as" /\ ~InBounds(input_ptr, input_len)) =>
        (~last.ok /\ last.err = "MemoryAccessFault" /\ last.num = 0)
    /\ (mode \in BufIn /\ ~InBounds(input_ptr, input_len)) =>
        (~read_as.ok /\ read_as.err = "MemoryAccessFault")

\* A read with a small max_len succeeded although in_len runs out of bounds.
C21_Witness ==
    /\ last.op = "read"
    /\ last.ok
    /\ last.n = 3
    /\ Len(last.bytes) = 3
    /\ ~InBounds(input_ptr, input_len)
    /\ ~read_as.ok

\* C22: a write is skipped only when allow_skip is true and the output
\* pointer is u32::MAX; any other write goes through the capacity check, the
\* optional charge and the bounds-checked copy, so with allow_skip = false
\* the pointer u32::MAX is a pointer like any other (and faults).
C22_SkipNeedsBoth ==
    (last.op = "write" /\ ~(last.skip /\ output_ptr = U32_MAX)) =>
        LET readable == InBounds(output_len_ptr, 4)
            fits == readable
                    /\ Len(last.buf) <= CapacityAt(last.mem0, output_len_ptr)
            token == ChargeToken(last.w, Len(last.buf))
            paid == token = None \/ token <= last.gas0
        IN  /\ last.ok <=> (fits /\ InBounds(output_ptr, Len(last.buf)) /\ paid)
            /\ last.ok =>
                /\ last.copied
                /\ \A i \in 1 .. Len(last.buf) :
                        memory[output_ptr + i - 1] = last.buf[i]
                /\ gas_left = last.gas0 - (IF token = None THEN 0 ELSE token)
            /\ (~readable) => last.err = "MemoryAccessFault"
            /\ (readable /\ ~fits) => last.err = "OutputBufferTooSmall"
            /\ (fits /\ ~InBounds(output_ptr, Len(last.buf)))
                    => last.err = "MemoryAccessFault"
            /\ output_ptr = U32_MAX => ~last.ok

\* A write to u32::MAX with allow_skip = false passed the capacity check and
\* failed in the bounds-checked copy.
C22_Witness ==
    /\ last.op = "write"
    /\ ~last.skip
    /\ output_ptr = U32_MAX
    /\ output_len_ptr = 4
    /\ Len(last.buf) = CapacityAt(last.mem0, 4)
    /\ last.err = "MemoryAccessFault"

\* C23: after a failed read_into the caller's buffer is the empty slice,
\* whatever its length was; after a successful one its length is
\* min(original length, in_len).
C23_ReadIntoBuffer ==
    last.op = "read_into" =>
        /\ ~last.ok => last.bytes = << >>
        /\ last.ok => Len(last.bytes) = Min(Len(last.buf), input_len)

\* A read_into of a 3-byte buffer failed and left the buffer empty.
C23_Witness ==
    /\ last.op = "read_into"
    /\ ~last.ok
    /\ Len(last.buf) = MaxBufLen
    /\ last.bytes = << >>

\* C24: try_resolve returns Ok(c) for Call(c) without asking the preimage
\* provider; for Hash(h) it returns Err(Unknown) when the provider has no
\* preimage for h, Err(BadFormat) when the preimage does not decode into a
\* call, and Ok of the decoded call otherwise.
C24_TryResolve ==
    lookup.op = "try_resolve" =>
        LET x == lookup.arg IN
        /\ x.tag = "Call" =>
            (lookup.res = LookupOk(x.call) /\ lookup.gets = << >>)
        /\ x.tag = "Hash" =>
            /\ lookup.gets = << x.hash >>
            /\ ~preimages[x.hash].some => lookup.res = LookupErr("Unknown")
            /\ (preimages[x.hash].some /\ ~decode(preimages[x.hash].data).ok)
                => lookup.res = LookupErr("BadFormat")
            /\ (preimages[x.hash].some /\ decode(preimages[x.hash].data).ok)
                => lookup.res = LookupOk(decode(preimages[x.hash].data).call)

\* A hash whose preimage is the variant byte without its argument failed
\* with BadFormat, the other hash having no preimage.
C24_Witness ==
    /\ lookup.op = "try_resolve"
    /\ lookup.arg = CallOrHash_Hash(2)
    /\ preimages[2] = Some(<< 1 >>)
    /\ ~preimages[1].some
    /\ lookup.res = LookupErr("BadFormat")

\* C25: over the same provider, resolved(x) is Call(c) exactly when
\* try_resolve(x) is Ok(c), and is the Hash(h) it was given exactly when
\* try_resolve(x) fails; resolving the result again changes nothing.
C25_ResolvedAgrees ==
    /\ \A x \in Values :
        LET r == resolved(x).out
            t == try_resolve(x).out
        IN  /\ \A c \in Calls : r = CallOrHash_Call(c) <=> t = LookupOk(c)
            /\ ~t.ok <=> (x.tag = "Hash" /\ r = x)
            /\ t.ok <=> r.tag = "Call"
            /\ resolved(r).out = r
    /\ lookup.op = "resolved" =>
        /\ lookup.out = resolved(lookup.arg).out
        /\ call_or_hash = lookup.out
        /\ resolved(call_or_hash).out = call_or_hash
        /\ (lookup.out.tag = "Call"
                <=> try_resolve(lookup.arg).out = LookupOk(lookup.out.call))

\* A hash whose preimage has bytes left over was resolved into its call.
C25_Witness ==
    /\ lookup.op = "resolved"
    /\ lookup.arg = CallOrHash_Hash(2)
    /\ preimages[2] = Some(<< 0, 1 >>)
    /\ call_or_hash = CallOrHash_Call([variant |-> 0, arg |-> 0])

====
